---- MODULE Spec2Model ----
(***************************************************************************)
(* Model of backend/server.js: the four Express endpoints of the          *)
(* Herbsayurmed checkout backend, the Razorpay signature check of         *)
(* /save-order, the Order collection and the order e-mail.                *)
(*                                                                         *)
(* Each request is handled by one slot r \in Reqs.  A handler is split at  *)
(* its `await` points, which are the only places where Node's event loop   *)
(* can interleave another request or let the clock advance.               *)
(*                                                                         *)
(* JavaScript strings are sequences of one-character strings, so that      *)
(* concatenation ("HSM" + Date.now(), id + "|" + id) is modelled by what   *)
(* it does.  JavaScript values that may be missing are tagged records.     *)
(* HMAC-SHA256 is modelled as an ideal keyed hash: the digest is a string  *)
(* that determines, and is determined by, the key and the message.         *)
(***************************************************************************)
EXTENDS Integers, Sequences, FiniteSets, TLC

(* ------------------------------ bounds --------------------------------- *)

\* number of request slots (requests received over a run, any interleaving)
NumReq == 2

\* Date.now() at start-up and the last millisecond the clock reaches
Epoch == 9

MaxTime == 10

Reqs == 1..NumReq

(* ------------------------- JavaScript values --------------------------- *)

Undefined == [t |-> "undefined"]

Null == [t |-> "null"]

Str(s) == [t |-> "string", v |-> s]

\* ToBoolean of the values the model uses: undefined, null and "" are falsy
Truthy(x) == /\ x # Undefined
             /\ x # Null
             /\ x # Str(<<>>)

Digits == <<"0", "1", "2", "3", "4", "5", "6", "7", "8", "9">>

RECURSIVE NumberToString(_)
\* decimal rendering of a non-negative integer, as String(n) in JavaScript
NumberToString(n) ==
    IF n < 10 THEN <<Digits[n + 1]>>
    ELSE NumberToString(n \div 10) \o <<Digits[(n % 10) + 1]>>

\* ToString of a string-or-undefined operand of "+"
ToStr(x) == IF x.t = "string" THEN x.v
            ELSE <<"u", "n", "d", "e", "f", "i", "n", "e", "d">>

(* --------------------------- environment ------------------------------- *)

RAZORPAY_KEY_SECRET == <<"k">>

RAZORPAY_KEY_ID == <<"i">>

\* a key the server does not use (what a forger has)
OtherSecret == <<"x">>

\* crypto.createHmac("sha256", key).update(msg).digest("hex")
HmacSha256Hex(key, msg) == <<"#">> \o key \o <<"/">> \o msg

(* ----------------------------- requests -------------------------------- *)

\* the two gateway order ids and the payment id a client may report
OrderIdVals == {Str(<<"a">>), Str(<<"b">>)}

PaymentIdVals == {Str(<<"c">>)}

\* the signatures a client may supply: none, the empty string, the digest of
\* either pair of ids under the server's key, and a digest under another key
SignatureVals ==
    {Undefined, Str(<<>>)}
    \cup {Str(HmacSha256Hex(RAZORPAY_KEY_SECRET, o.v \o <<"|">> \o p.v)) :
             o \in OrderIdVals, p \in PaymentIdVals}
    \cup {Str(HmacSha256Hex(OtherSecret, <<"a", "|", "c">>))}

\* req.body.payment: missing, or the object the Razorpay checkout returns
PaymentVals ==
    {Undefined}
    \cup [t : {"object"},
          razorpay_order_id : OrderIdVals,
          razorpay_payment_id : PaymentIdVals,
          razorpay_signature : SignatureVals]

\* req.body.orderData: missing, or an order with its customer
OrderDataVals ==
    {Undefined,
     [t |-> "object", customer |-> "cust", items |-> "items",
      subtotal |-> 4, shipping |-> 1, total |-> 5]}

SaveOrderBodies == [orderData : OrderDataVals, payment : PaymentVals]

CreateOrderBodies == [amount : {5}, currency : {Undefined, Str(<<"U", "S", "D">>)}]

NoBody == [t |-> "none"]

NoDoc == [t |-> "none"]

NoRes == [status |-> 0]

(* ------------------------------- state --------------------------------- *)

VARIABLES
    now,          \* Date.now(), in milliseconds
    store,        \* the Order collection: the documents saved so far
    mails,        \* _ids of the orders whose e-mail the mail relay accepted
    endpoint,     \* endpoint[r]: the route request r was sent to
    body,         \* body[r]: req.body of request r
    pc,           \* pc[r]: where the handler of request r is suspended
    orderId,      \* orderId[r]: the handler's orderId (line 107)
    readTs,       \* readTs[r]: the Date.now() value line 107 read
    newOrder,     \* newOrder[r]: the document of line 141 (for create-order:
                  \* the options of line 76, which the gateway's order repeats)
    res,          \* res[r]: the response sent to the client
    verifierRuns, \* verifierRuns[r]: times lines 124-132 ran for r
    saveCalls,    \* saveCalls[r]: times newOrder.save() was called for r
    mailCalls     \* mailCalls[r]: times sendOrderEmail was called for r

vars == <<now, store, mails, endpoint, body, pc, orderId, readTs, newOrder,
          res, verifierRuns, saveCalls, mailCalls>>

Init ==
    /\ now = Epoch
    /\ store = {}
    /\ mails = {}
    /\ endpoint = [r \in Reqs |-> "none"]
    /\ body = [r \in Reqs |-> NoBody]
    /\ pc = [r \in Reqs |-> "idle"]
    /\ orderId = [r \in Reqs |-> <<>>]
    /\ readTs = [r \in Reqs |-> 0]
    /\ newOrder = [r \in Reqs |-> NoDoc]
    /\ res = [r \in Reqs |-> NoRes]
    /\ verifierRuns = [r \in Reqs |-> 0]
    /\ saveCalls = [r \in Reqs |-> 0]
    /\ mailCalls = [r \in Reqs |-> 0]

\* the system clock moves between any two steps of the event loop
Tick ==
    /\ now < MaxTime
    /\ now' = now + 1
    /\ UNCHANGED <<store, mails, endpoint, body, pc, orderId, readTs, newOrder,
                   res, verifierRuns, saveCalls, mailCalls>>

(* ------------------------ POST /save-order ----------------------------- *)

\* lines 101-105 read orderData.customer.name and orderData.total: a
\* TypeError unless orderData is an object with a customer
ReadsOrderData(b) == b.orderData # Undefined

\* a slip: the id is made once, when the module is loaded
OrderIdOf_AtStartup(ts) == <<"H", "S", "M">> \o NumberToString(Epoch)

\* "HSM" + Date.now()
OrderIdOf(ts) == <<"H", "S", "M">> \o NumberToString(ts)

\* a slip: the branches of the conditional are swapped
PaymentMethod_Swapped(payment) == IF Truthy(payment) THEN "cod" ELSE "online"

PaymentMethod(payment) == IF Truthy(payment) THEN "online" ELSE "cod"

\* a slip: "paid" is decided by the signature, the method by the object
PaymentStatus_BySignature(payment) ==
    IF Truthy(payment) /\ Truthy(payment.razorpay_signature)
    THEN "paid" ELSE "pending"

PaymentStatus(payment) == IF Truthy(payment) THEN "paid" ELSE "pending"

\* a slip: the "|| null" is left out
StoredPayment_NoDefault(payment) == payment

\* payment || null
StoredPayment(payment) == IF Truthy(payment) THEN payment ELSE Null

\* the object of lines 110-120, with the _id the Order constructor adds
OrderToSave(id, oid, orderData, payment) ==
    [_id |-> id,
     orderId |-> oid,
     customer |-> orderData.customer,
     items |-> orderData.items,
     subtotal |-> orderData.subtotal,
     shipping |-> orderData.shipping,
     total |-> orderData.total,
     paymentMethod |-> PaymentMethod(payment),
     paymentStatus |-> PaymentStatus(payment),
     payment |-> StoredPayment(payment)]

\* payment && payment.razorpay_signature
SignaturePresent(payment) ==
    /\ Truthy(payment)
    /\ Truthy(payment.razorpay_signature)

\* a slip: the digest is taken over ids that are not the request's own
ExpectedSign_FixedIds(payment) ==
    Str(HmacSha256Hex(RAZORPAY_KEY_SECRET, <<"a", "|", "c">>))

\* lines 126-130
ExpectedSign(payment) ==
    Str(HmacSha256Hex(RAZORPAY_KEY_SECRET,
                      ToStr(payment.razorpay_order_id) \o <<"|">>
                          \o ToStr(payment.razorpay_payment_id)))

\* a slip: the result of the comparison is not acted on
SignatureMismatch_Ignored(payment) == FALSE

\* razorpay_signature !== expectedSign
SignatureMismatch(payment) == payment.razorpay_signature # ExpectedSign(payment)

InvalidSignatureRes ==
    [status |-> 400, body |-> [error |-> "Invalid payment signature"]]

SaveFailedRes(details) ==
    [status |-> 500,
     body |-> [error |-> "Failed to save order", details |-> details]]

SuccessRes(oid) ==
    [status |-> 200,
     body |-> [success |-> TRUE, orderId |-> oid,
               message |-> "Order placed successfully"]]

\* a slip: a rejected save is logged and the handler answers as usual
SaveErrorRes_Swallowed(oid) == SuccessRes(oid)

\* what a rejected newOrder.save() leads to (the outer catch)
SaveErrorRes(oid) == SaveFailedRes("save rejected")

\* a slip: the e-mail error reaches the client
AfterEmailRes_Surfaced(oid, delivered) ==
    IF delivered THEN SuccessRes(oid) ELSE SaveFailedRes("mail rejected")

\* what follows sendOrderEmail, delivered or not (lines 146-158)
AfterEmailRes(oid, delivered) == SuccessRes(oid)

\* a slip: the write replaces the order that has the same orderId
Insert_UpsertByOrderId(coll, doc) ==
    {d \in coll : d.orderId # doc.orderId} \cup {doc}

\* Order.save() resolved: the document is in the collection
Insert(coll, doc) == coll \cup {doc}

\* The handler from its start to its first await: the body is read, the
\* orderId made, the signature checked, and save() called on the document.
SaveOrder(r, b) ==
    /\ pc[r] = "idle"
    /\ endpoint' = [endpoint EXCEPT ![r] = "save-order"]
    /\ body' = [body EXCEPT ![r] = b]
    /\ UNCHANGED <<now, store, mails, mailCalls>>
    /\ IF ~ReadsOrderData(b)
       THEN /\ res' = [res EXCEPT ![r] = SaveFailedRes("TypeError")]
            /\ pc' = [pc EXCEPT ![r] = "done"]
            /\ UNCHANGED <<orderId, readTs, newOrder, verifierRuns, saveCalls>>
       ELSE /\ orderId' = [orderId EXCEPT ![r] = OrderIdOf(now)]
            /\ readTs' = [readTs EXCEPT ![r] = now]
            /\ verifierRuns' = [verifierRuns EXCEPT ![r] =
                                   IF SignaturePresent(b.payment) THEN @ + 1 ELSE @]
            /\ IF SignaturePresent(b.payment) /\ SignatureMismatch(b.payment)
               THEN /\ res' = [res EXCEPT ![r] = InvalidSignatureRes]
                    /\ pc' = [pc EXCEPT ![r] = "done"]
                    /\ UNCHANGED <<newOrder, saveCalls>>
               ELSE /\ newOrder' = [newOrder EXCEPT ![r] =
                                       OrderToSave(r, OrderIdOf(now), b.orderData,
                                                   b.payment)]
                    /\ saveCalls' = [saveCalls EXCEPT ![r] = @ + 1]
                    /\ pc' = [pc EXCEPT ![r] = "saving"]
                    /\ UNCHANGED res

\* await newOrder.save() resolves; the handler goes on to call
\* sendOrderEmail and suspends on it
SaveResolved(r) ==
    /\ pc[r] = "saving"
    /\ store' = Insert(store, newOrder[r])
    /\ mailCalls' = [mailCalls EXCEPT ![r] = @ + 1]
    /\ pc' = [pc EXCEPT ![r] = "mailing"]
    /\ UNCHANGED <<now, mails, endpoint, body, orderId, readTs, newOrder, res,
                   verifierRuns, saveCalls>>

\* await newOrder.save() rejects: the outer catch answers
SaveRejected(r) ==
    /\ pc[r] = "saving"
    /\ res' = [res EXCEPT ![r] = SaveErrorRes(orderId[r])]
    /\ pc' = [pc EXCEPT ![r] = "done"]
    /\ UNCHANGED <<now, store, mails, endpoint, body, orderId, readTs, newOrder,
                   verifierRuns, saveCalls, mailCalls>>

\* await sendOrderEmail(newOrder) resolves
EmailResolved(r) ==
    /\ pc[r] = "mailing"
    /\ mails' = mails \cup {newOrder[r]._id}
    /\ res' = [res EXCEPT ![r] = AfterEmailRes(orderId[r], TRUE)]
    /\ pc' = [pc EXCEPT ![r] = "done"]
    /\ UNCHANGED <<now, store, endpoint, body, orderId, readTs, newOrder,
                   verifierRuns, saveCalls, mailCalls>>

\* await sendOrderEmail(newOrder) rejects: the inner catch logs it
EmailRejected(r) ==
    /\ pc[r] = "mailing"
    /\ res' = [res EXCEPT ![r] = AfterEmailRes(orderId[r], FALSE)]
    /\ pc' = [pc EXCEPT ![r] = "done"]
    /\ UNCHANGED <<now, store, mails, endpoint, body, orderId, readTs, newOrder,
                   verifierRuns, saveCalls, mailCalls>>

(* ------------------ the endpoints that keep no state -------------------- *)

\* the options of lines 76-80
GatewayOptions(b, ts) ==
    [amount |-> b.amount * 100,
     currency |-> IF Truthy(b.currency) THEN b.currency
                  ELSE Str(<<"I", "N", "R">>),
     receipt |-> <<"r", "c", "p", "t", "_">> \o NumberToString(ts)]

\* POST /create-order up to its await on razorpay.orders.create
CreateOrder(r, b) ==
    /\ pc[r] = "idle"
    /\ endpoint' = [endpoint EXCEPT ![r] = "create-order"]
    /\ body' = [body EXCEPT ![r] = b]
    /\ newOrder' = [newOrder EXCEPT ![r] = GatewayOptions(b, now)]
    /\ pc' = [pc EXCEPT ![r] = "gateway"]
    /\ UNCHANGED <<now, store, mails, orderId, readTs, res, verifierRuns,
                   saveCalls, mailCalls>>

\* the gateway answers with its order object, returned as it is
GatewayResolved(r) ==
    /\ pc[r] = "gateway"
    /\ res' = [res EXCEPT ![r] = [status |-> 200, body |-> newOrder[r]]]
    /\ pc' = [pc EXCEPT ![r] = "done"]
    /\ UNCHANGED <<now, store, mails, endpoint, body, orderId, readTs, newOrder,
                   verifierRuns, saveCalls, mailCalls>>

\* the gateway call fails
GatewayRejected(r) ==
    /\ pc[r] = "gateway"
    /\ res' = [res EXCEPT ![r] =
                  [status |-> 500,
                   body |-> [error |-> "Failed to create order",
                             details |-> "gateway error"]]]
    /\ pc' = [pc EXCEPT ![r] = "done"]
    /\ UNCHANGED <<now, store, mails, endpoint, body, orderId, readTs, newOrder,
                   verifierRuns, saveCalls, mailCalls>>

\* GET /get-razorpay-key
GetRazorpayKey(r) ==
    /\ pc[r] = "idle"
    /\ endpoint' = [endpoint EXCEPT ![r] = "get-razorpay-key"]
    /\ res' = [res EXCEPT ![r] = [status |-> 200, body |-> [key |-> RAZORPAY_KEY_ID]]]
    /\ pc' = [pc EXCEPT ![r] = "done"]
    /\ UNCHANGED <<now, store, mails, body, orderId, readTs, newOrder,
                   verifierRuns, saveCalls, mailCalls>>

\* GET /
HealthCheck(r) ==
    /\ pc[r] = "idle"
    /\ endpoint' = [endpoint EXCEPT ![r] = "health-check"]
    /\ res' = [res EXCEPT ![r] =
                  [status |-> 200,
                   body |-> [status |-> "Server is running", timestamp |-> now]]]
    /\ pc' = [pc EXCEPT ![r] = "done"]
    /\ UNCHANGED <<now, store, mails, body, orderId, readTs, newOrder,
                   verifierRuns, saveCalls, mailCalls>>

Next ==
    \/ Tick
    \/ \E r \in Reqs : \E b \in SaveOrderBodies : SaveOrder(r, b)
    \/ \E r \in Reqs : SaveResolved(r)
    \/ \E r \in Reqs : SaveRejected(r)
    \/ \E r \in Reqs : EmailResolved(r)
    \/ \E r \in Reqs : EmailRejected(r)
    \/ \E r \in Reqs : \E b \in CreateOrderBodies : CreateOrder(r, b)
    \/ \E r \in Reqs : GatewayResolved(r)
    \/ \E r \in Reqs : GatewayRejected(r)
    \/ \E r \in Reqs : GetRazorpayKey(r)
    \/ \E r \in Reqs : HealthCheck(r)

Spec == Init /\ [][Next]_vars

(* ------------------------------ properties ----------------------------- *)

SaveOrderReqs == {r \in Reqs : endpoint[r] = "save-order"}

\* the document of request r is in the collection
Persisted(r) == \E o \in store : o._id = r

\* save() of request r resolved / rejected
SaveSucceeded(r) == endpoint[r] = "save-order" /\ mailCalls[r] > 0

SaveFailed(r) ==
    /\ endpoint[r] = "save-order"
    /\ pc[r] = "done"
    /\ saveCalls[r] > 0
    /\ mailCalls[r] = 0

\* sendOrderEmail of request r rejected
EmailFailed(r) ==
    /\ endpoint[r] = "save-order"
    /\ pc[r] = "done"
    /\ mailCalls[r] > 0
    /\ r \notin mails

\* HMAC-SHA256(secret, gatewayOrderId + "|" + gatewayPaymentId) of a payment
DigestOf(payment) ==
    Str(HmacSha256Hex(RAZORPAY_KEY_SECRET,
                      payment.razorpay_order_id.v \o <<"|">>
                          \o payment.razorpay_payment_id.v))

\* the payment object carries a signature (a non-empty string: the empty
\* string is how a form field that was never filled arrives)
CarriesSignature(payment) ==
    /\ payment \notin {Undefined, Null}
    /\ payment.razorpay_signature \notin {Undefined, Str(<<>>)}

\* C1: every stored order whose payment is non-null and carries a signature
\* was verified before it was stored: the verifier ran for its request and
\* the signature is the HMAC-SHA256, under the server's secret, of
\* order id + "|" + payment id of that same payment object.
C1_StoredSignatureVerified ==
    \A o \in store :
        (o.payment # Null /\ CarriesSignature(o.payment))
            => /\ o.payment.razorpay_signature = DigestOf(o.payment)
               /\ verifierRuns[o._id] = 1

C1_Witness ==
    \E o \in store :
        /\ o.payment # Null
        /\ CarriesSignature(o.payment)
        /\ o.payment.razorpay_order_id = Str(<<"b">>)

\* a request whose payment carries a signature other than the digest
Mismatched(r) ==
    /\ endpoint[r] = "save-order"
    /\ CarriesSignature(body[r].payment)
    /\ body[r].payment.razorpay_signature # DigestOf(body[r].payment)

\* such a request leaves nothing behind
NothingPersisted(r) ==
    /\ ~Persisted(r)
    /\ saveCalls[r] = 0
    /\ mailCalls[r] = 0
    /\ r \notin mails
    /\ pc[r] = "done"
    /\ res[r].status # 200

\* C2 as stated: a save-order request whose payment carries a signature that
\* differs from the expected digest is answered 400 "Invalid payment
\* signature", and persists nothing, notifies nobody and gets no success.
C2_Original ==
    \A r \in Reqs :
        Mismatched(r) => (res[r] = InvalidSignatureRes /\ NothingPersisted(r))

\* C2 as amended: such a request persists nothing, notifies nobody and gets
\* no success; it is answered 400 "Invalid payment signature" when its
\* orderData has a customer, and 500 "Failed to save order" when reading
\* orderData.customer throws, which happens before the signature is read.
C2_MismatchRejected ==
    \A r \in Reqs :
        Mismatched(r) =>
            /\ NothingPersisted(r)
            /\ res[r] = IF ReadsOrderData(body[r]) THEN InvalidSignatureRes
                        ELSE SaveFailedRes("TypeError")

C2_Witness ==
    \E r \in Reqs :
        /\ Mismatched(r)
        /\ res[r] = InvalidSignatureRes
        /\ store # {}

\* C3 as stated: an order of a request without a signature is stored
\* unverified as cash-on-delivery ("cod", "pending"), also when the request
\* has a payment object; no order is stored as "online" or "paid" without
\* having passed the verifier.
C3_NoSignatureIsCod ==
    \A o \in store :
        /\ ~CarriesSignature(body[o._id].payment)
              => /\ verifierRuns[o._id] = 0
                 /\ o.paymentMethod = "cod"
                 /\ o.paymentStatus = "pending"
        /\ (o.paymentMethod = "online" \/ o.paymentStatus = "paid")
              => verifierRuns[o._id] > 0

\* C4: a save-order request without a payment field never runs the verifier
\* and, once its save has succeeded, has exactly one order in the store,
\* with paymentMethod "cod", paymentStatus "pending" and payment null.
C4_NoPaymentIsCod ==
    \A r \in SaveOrderReqs :
        body[r].payment = Undefined =>
            /\ verifierRuns[r] = 0
            /\ SaveSucceeded(r) =>
                  /\ Cardinality({o \in store : o._id = r}) = 1
                  /\ \A o \in store : o._id = r =>
                        /\ o.paymentMethod = "cod"
                        /\ o.paymentStatus = "pending"
                        /\ o.payment = Null
                        /\ o.orderId = orderId[r]

C4_Witness ==
    \E r \in SaveOrderReqs :
        /\ body[r].payment = Undefined
        /\ SaveSucceeded(r)
        /\ Persisted(r)

\* a request whose payment carries the expected digest
Matching(r) ==
    /\ endpoint[r] = "save-order"
    /\ CarriesSignature(body[r].payment)
    /\ body[r].payment.razorpay_signature = DigestOf(body[r].payment)

\* C5: a save-order request whose payment carries the expected digest has,
\* once its save has succeeded, exactly one order in the store, with
\* paymentMethod "online", paymentStatus "paid" and the payment object it
\* supplied, and its response is the success with the generated orderId.
C5_ValidSignatureIsPaid ==
    \A r \in Reqs :
        (Matching(r) /\ SaveSucceeded(r)) =>
            /\ Cardinality({o \in store : o._id = r}) = 1
            /\ \A o \in store : o._id = r =>
                  /\ o.paymentMethod = "online"
                  /\ o.paymentStatus = "paid"
                  /\ o.payment = body[r].payment
                  /\ o.orderId = orderId[r]
            /\ pc[r] = "done" => res[r] = SuccessRes(orderId[r])

C5_Witness ==
    \E r \in Reqs :
        /\ Matching(r)
        /\ SaveSucceeded(r)
        /\ pc[r] = "done"
        /\ res[r].status = 200

\* the responses /save-order gives
SaveOrderResponses(r) ==
    {SuccessRes(orderId[r]), InvalidSignatureRes,
     SaveFailedRes("TypeError"), SaveFailedRes("save rejected")}

\* C6: when the e-mail of a stored order fails, the request is still
\* answered with the success and its orderId, the order stays in the store
\* as it was written, and the e-mail was tried once; no response of
\* /save-order reports an e-mail error.
C6_EmailFailureTolerated ==
    \A r \in SaveOrderReqs :
        /\ mailCalls[r] <= 1
        /\ pc[r] = "done" => res[r] \in SaveOrderResponses(r)
        /\ EmailFailed(r) =>
              /\ res[r] = SuccessRes(orderId[r])
              /\ newOrder[r] \in store

C6_Witness == \E r \in Reqs : EmailFailed(r) /\ res[r].status = 200

\* C7: when the save of a request fails, the response is 500 "Failed to
\* save order" and never a success, save() was called once and the e-mail
\* not at all.  So a success for orderId X means an order with orderId X is
\* stored, and an e-mail is only ever sent for a stored order.
C7_SaveFailureSurfaced ==
    \A r \in SaveOrderReqs :
        /\ saveCalls[r] <= 1
        /\ SaveFailed(r) =>
              /\ res[r].status = 500
              /\ res[r].body.error = "Failed to save order"
              /\ mailCalls[r] = 0
              /\ r \notin mails
              /\ ~Persisted(r)
        /\ res[r].status = 200 =>
              \E o \in store : o._id = r /\ o.orderId = res[r].body.orderId
        /\ mailCalls[r] > 0 => newOrder[r] \in store

C7_Witness ==
    \E r \in Reqs :
        /\ SaveFailed(r)
        /\ res[r].status = 500
        /\ \E q \in Reqs : res[q].status = 200 /\ endpoint[q] = "save-order"

\* the requests that made an orderId
WithOrderId == {r \in SaveOrderReqs : orderId[r] # <<>>}

\* C8: the orderId of a request is "HSM" followed by the decimal digits of
\* the millisecond it read; requests that read different milliseconds have
\* different orderIds, and two stored orders have the same orderId only if
\* their requests read the same millisecond.
C8_OrderIdFromTimestamp ==
    /\ \A r \in WithOrderId :
          /\ SubSeq(orderId[r], 1, 3) = <<"H", "S", "M">>
          /\ SubSeq(orderId[r], 4, Len(orderId[r])) = NumberToString(readTs[r])
    /\ \A r, q \in WithOrderId :
          readTs[r] # readTs[q] => orderId[r] # orderId[q]
    /\ \A o, d \in store :
          (o # d /\ o.orderId = d.orderId) => readTs[o._id] = readTs[d._id]

\* two stored orders with one orderId, written after the clock had moved
C8_Witness ==
    /\ \E o, d \in store : o # d /\ o.orderId = d.orderId
    /\ now > Epoch

\* C9: in every stored order paymentMethod is "online" exactly when
\* paymentStatus is "paid" and "cod" exactly when it is "pending"; both say
\* whether the request had a payment object, and payment is non-null
\* exactly when paymentMethod is "online".
C9_StatusMirrorsMethod ==
    \A o \in store :
        /\ o.paymentMethod \in {"online", "cod"}
        /\ o.paymentStatus \in {"paid", "pending"}
        /\ o.paymentMethod = "online" <=> o.paymentStatus = "paid"
        /\ o.paymentMethod = "cod" <=> o.paymentStatus = "pending"
        /\ o.paymentMethod = "online" <=> body[o._id].payment # Undefined
        /\ o.payment # Null <=> o.paymentMethod = "online"

C9_Witness ==
    /\ \E o \in store : o.paymentMethod = "online" /\ ~CarriesSignature(o.payment)
    /\ \E o \in store : o.paymentMethod = "cod"

\* a request that got past the signature branch and is waiting for save()
PassedSignatureBranch(r) ==
    /\ endpoint[r] = "save-order"
    /\ pc[r] = "saving"
    /\ CarriesSignature(body[r].payment) =>
          body[r].payment.razorpay_signature = DigestOf(body[r].payment)

\* C10: no step removes or changes a stored order; a step that changes the
\* store adds one order, and it is the step of a save-order request that
\* got past the signature branch; the steps of create-order,
\* get-razorpay-key and health-check leave the store as it is.
C10_AppendOnlyStep ==
    /\ store \subseteq store'
    /\ Cardinality(store' \ store) <= 1
    /\ store' # store =>
          \E r \in Reqs :
              /\ PassedSignatureBranch(r)
              /\ pc'[r] # pc[r]
              /\ store' \ store = {newOrder[r]}
    /\ \A r \in Reqs :
          (pc'[r] # pc[r]
              /\ endpoint'[r] \in {"create-order", "get-razorpay-key", "health-check"})
            => store' = store

C10_AppendOnly == [][C10_AppendOnlyStep]_vars

C10_Witness ==
    /\ \E o \in store : o.paymentMethod = "online"
    /\ \E r \in Reqs : endpoint[r] = "create-order" /\ res[r].status = 200

====
